---------------------------- MODULE Spec2Model ----------------------------
(***************************************************************************)
(* ReactiveUnorderedMap<Key, Value> (src/reactive_unordered_map.hpp): a    *)
(* wrapper around std::unordered_map whose emplace and erase(key) emit     *)
(* Inserted / Erased signals through a public SignalEmitter.               *)
(*                                                                         *)
(* The store is the set of nodes of map_.  A call that emits stays on the  *)
(* call stack while the emitter delivers the signal, callback by callback; *)
(* a running callback may call back into the store, return or throw.       *)
(***************************************************************************)
EXTENDS Integers, Sequences, FiniteSets, TLC

MaxKey == 2
MaxVal == 1
MaxSubs == 2
MaxDepth == 1

DefaultValue == 0

Key == 1..MaxKey
Value == DefaultValue..MaxVal
Node == [key : Key, val : Value]

\* the signal types the store emits (typename map_signals::Inserted / Erased)
Kinds == {"Inserted", "Erased"}

VARIABLES map_, signal_emitter, stack, last, mirror

vars == <<map_, signal_emitter, stack, last, mirror>>

-----------------------------------------------------------------------------
(* std::unordered_map, as the wrapper calls it *)

\* an iterator is the set holding the node it points at; {} is end()
map_find(m, k) == {n \in m : n.key = k}

map_end == {}

map_size(m) == Cardinality(m)

map_empty(m) == m = {}

map_at_unchecked(m, k) ==
    IF map_find(m, k) = map_end
    THEN [threw |-> FALSE, value |-> DefaultValue]
    ELSE [threw |-> FALSE, value |-> (CHOOSE n \in map_find(m, k) : TRUE).val]

map_at(m, k) ==
    IF map_find(m, k) = map_end
    THEN [threw |-> TRUE, what |-> "out_of_range"]
    ELSE [threw |-> FALSE, value |-> (CHOOSE n \in map_find(m, k) : TRUE).val]

map_emplace_dup(m, k, v) ==
    [map |-> m \cup {[key |-> k, val |-> v]},
     it |-> {[key |-> k, val |-> v]},
     second |-> TRUE]

map_emplace_overwrite(m, k, v) ==
    [map |-> (m \ map_find(m, k)) \cup {[key |-> k, val |-> v]},
     it |-> {[key |-> k, val |-> v]},
     second |-> map_find(m, k) = map_end]

map_emplace(m, k, v) ==
    IF map_find(m, k) = map_end
    THEN [map |-> m \cup {[key |-> k, val |-> v]},
          it |-> {[key |-> k, val |-> v]},
          second |-> TRUE]
    ELSE [map |-> m, it |-> map_find(m, k), second |-> FALSE]

map_try_emplace(m, k, v) == map_emplace(m, k, v)

map_insert_or_assign_replaced(m, k, v) ==
    [map |-> (m \ map_find(m, k)) \cup {[key |-> k, val |-> v]},
     it |-> {[key |-> k, val |-> v]},
     second |-> map_find(m, k) # map_end]

map_insert_or_assign(m, k, v) ==
    [map |-> (m \ map_find(m, k)) \cup {[key |-> k, val |-> v]},
     it |-> {[key |-> k, val |-> v]},
     second |-> map_find(m, k) = map_end]

map_subscript(m, k) == map_emplace(m, k, DefaultValue)

map_erase_key(m, k) ==
    [map |-> m \ map_find(m, k), count |-> Cardinality(map_find(m, k))]

\* pos is a dereferenceable iterator of m
map_erase_pos(m, pos) == [map |-> m \ pos]

map_clear(m) == {}

-----------------------------------------------------------------------------
(* signals *)

Inserted(key, value) == [kind |-> "Inserted", key |-> key, value |-> value]

Erased(key, old_value) == [kind |-> "Erased", key |-> key, old_value |-> old_value]

\* the callbacks a dispatch of kind runs: the subscriber list at dispatch start
Snapshot(subs, kind) == SelectSeq(subs, LAMBDA s : s.kind = kind)

-----------------------------------------------------------------------------
(* SignalEmitter (sbpt_generated_includes.hpp): the subscriber registry *)

SubIds == 1..MaxSubs

UsedIds == {signal_emitter[i].id : i \in 1..Len(signal_emitter)}

connect(kind) ==
    /\ stack = <<>>
    /\ Len(signal_emitter) < MaxSubs
    /\ signal_emitter' = Append(signal_emitter,
            [id |-> CHOOSE i \in SubIds \ UsedIds :
                        \A j \in SubIds \ UsedIds : i <= j,
             kind |-> kind])
    /\ UNCHANGED <<map_, stack, last>>

-----------------------------------------------------------------------------
(* calls in progress *)

Top == stack[Len(stack)]

disconnect_live(id) ==
    /\ id \in UsedIds
    /\ IF stack = <<>> THEN TRUE
       ELSE Top.pc = "cb" /\ Top.snap[Top.idx].id = id
    /\ signal_emitter' = SelectSeq(signal_emitter, LAMBDA s : s.id # id)
    /\ stack' = [i \in 1..Len(stack) |->
                    [stack[i] EXCEPT
                        !.snap = SelectSeq(@, LAMBDA s : s.id # id)]]
    /\ UNCHANGED <<map_, last>>

\* the owner of the store cancels a subscription, or the running callback its own
disconnect(id) ==
    /\ id \in UsedIds
    /\ IF stack = <<>> THEN TRUE
       ELSE Top.pc = "cb" /\ Top.snap[Top.idx].id = id
    /\ signal_emitter' = SelectSeq(signal_emitter, LAMBDA s : s.id # id)
    /\ UNCHANGED <<map_, stack, last>>

\* a call comes from the owner of the store or from the callback now running
CanCall == IF stack = <<>> THEN TRUE ELSE Top.pc = "cb"

\* a call made from a callback changed the store: every delivery in progress
\* has seen a mutation since its own, and an Inserted signal whose node was
\* erased refers to storage that is gone
Touch(frames, erased) ==
    [i \in 1..Len(frames) |->
        [frames[i] EXCEPT
            !.dirty = TRUE,
            !.dangling = @ \/ (frames[i].ev.kind = "Inserted"
                               /\ frames[i].ev.key \in erased)]]

NoCall == [op |-> "none"]

Result(op, args, ret, threw, pre, post, emitted, depth, dirty) ==
    [op |-> op, args |-> args, ret |-> ret, threw |-> threw, pre |-> pre,
     post |-> post, emitted |-> emitted, depth |-> depth, dirty |-> dirty]

\* a call that emits nothing runs to completion
Complete(op, args, ret, threw, post, erased) ==
    /\ CanCall
    /\ map_' = post
    /\ stack' = IF post = map_ THEN stack ELSE Touch(stack, erased)
    /\ last' = Result(op, args, ret, threw, map_, post, <<>>, Len(stack), FALSE)
    /\ UNCHANGED signal_emitter

\* what a callback reads through the references the signal holds, the store
\* being m
View(f, m) ==
    IF f.ev.kind = "Inserted"
    THEN IF f.dangling
         THEN {Inserted(k, v) : k \in Key, v \in Value}
         ELSE {Inserted(n.key, n.val) : n \in map_find(m, f.ev.key)}
    ELSE {f.ev}

Dispatch_reversed(f, m) ==
    IF f.idx <= Len(f.snap)
    THEN {[f EXCEPT !.pc = "cb",
                    !.delivered = Append(@,
                        [id |-> f.snap[Len(f.snap) + 1 - f.idx].id,
                         ev |-> seen])] :
            seen \in View(f, m)}
    ELSE {[f EXCEPT !.pc = "done"]}

\* SignalEmitter::emit goes on: it calls callback idx of the pass, or the pass
\* is over
Dispatch(f, m) ==
    IF f.idx <= Len(f.snap)
    THEN {[f EXCEPT !.pc = "cb",
                    !.delivered = Append(@, [id |-> f.snap[f.idx].id,
                                             ev |-> seen])] :
            seen \in View(f, m)}
    ELSE {[f EXCEPT !.pc = "done"]}

Emit_first(op, args, ret, post, erased, ev) ==
    /\ CanCall
    /\ Len(stack) < MaxDepth
    /\ map_' = map_
    /\ \E f \in Dispatch(
            [op |-> op, args |-> args, ret |-> ret, pre |-> map_, ev |-> ev,
             snap |-> Snapshot(signal_emitter, ev.kind), idx |-> 1,
             pc |-> "emit", dirty |-> FALSE, dangling |-> FALSE,
             delivered |-> <<>>], map_) :
         stack' = Append(stack, f)
    /\ last' = NoCall
    /\ UNCHANGED signal_emitter

\* signal_emitter.emit(ev), called after the store was changed to post
Emit(op, args, ret, post, erased, ev) ==
    /\ CanCall
    /\ Len(stack) < MaxDepth
    /\ map_' = post
    /\ \E f \in Dispatch(
            [op |-> op, args |-> args, ret |-> ret, pre |-> map_, ev |-> ev,
             snap |-> Snapshot(signal_emitter, ev.kind), idx |-> 1,
             pc |-> "emit", dirty |-> FALSE, dangling |-> FALSE,
             delivered |-> <<>>], post) :
         stack' = Append(Touch(stack, erased), f)
    /\ last' = NoCall
    /\ UNCHANGED signal_emitter

-----------------------------------------------------------------------------
(* ReactiveUnorderedMap *)

Init ==
    /\ map_ = {}
    /\ signal_emitter = <<>>
    /\ stack = <<>>
    /\ last = NoCall
    /\ mirror = {}

emplace_silent(k, v) ==
    LET r == map_emplace(map_, k, v)
    IN  Complete("emplace", [key |-> k, value |-> v],
                 [it |-> r.it, second |-> r.second], FALSE, r.map, {})

emplace(k, v) ==
    LET r == map_emplace(map_, k, v)
        it == CHOOSE n \in r.it : TRUE
    IN  IF r.second
        THEN Emit("emplace", [key |-> k, value |-> v],
                  [it |-> r.it, second |-> r.second], r.map, {},
                  Inserted(it.key, it.val))
        ELSE Complete("emplace", [key |-> k, value |-> v],
                  [it |-> r.it, second |-> r.second], FALSE, r.map, {})

erase_unsnapped(key) ==
    LET it == map_find(map_, key)
    IN  IF it = map_end
        THEN Complete("erase", [key |-> key], 0, FALSE, map_, {})
        ELSE LET r == map_erase_key(map_, key)
             IN  Emit("erase", [key |-> key], r.count, r.map, {key},
                      Erased(key, DefaultValue))

erase_silent(key) ==
    LET r == map_erase_key(map_, key)
    IN  Complete("erase", [key |-> key], r.count, FALSE, r.map, {key})

erase_unchecked(key) ==
    LET r == map_erase_key(map_, key)
    IN  Emit("erase", [key |-> key], r.count, r.map, {key},
             Erased(key, DefaultValue))

erase(key) ==
    LET it == map_find(map_, key)
    IN  IF it = map_end
        THEN Complete("erase", [key |-> key], 0, FALSE, map_, {})
        ELSE LET old_value == (CHOOSE n \in it : TRUE).val
                 r == map_erase_key(map_, key)
             IN  IF r.count = 1
                 THEN Emit("erase", [key |-> key], r.count, r.map, {key},
                           Erased(key, old_value))
                 ELSE Complete("erase", [key |-> key], r.count, FALSE,
                           r.map, {key})

insert_or_assign(key, value) ==
    LET r == map_insert_or_assign(map_, key, value)
    IN  Complete("insert_or_assign", [key |-> key, value |-> value],
                 [it |-> r.it, second |-> r.second], FALSE, r.map, {})

try_emplace(key, value) ==
    LET r == map_try_emplace(map_, key, value)
    IN  Complete("try_emplace", [key |-> key, value |-> value],
                 [it |-> r.it, second |-> r.second], FALSE, r.map, {})

\* operator[]
subscript(key) ==
    LET r == map_subscript(map_, key)
    IN  Complete("subscript", [key |-> key], r.it, FALSE, r.map, {})

\* erase(iterator pos): pos points at a node of the map
erase_pos(pos) ==
    /\ pos \subseteq map_
    /\ Cardinality(pos) = 1
    /\ LET r == map_erase_pos(map_, pos)
       IN  Complete("erase_pos", [pos |-> pos], map_end, FALSE, r.map,
                    {n.key : n \in pos})

clear ==
    Complete("clear", <<>>, <<>>, FALSE, map_clear(map_),
             {n.key : n \in map_})

update_if_exists_upsert(key, new_value) ==
    LET it == map_find(map_, key)
    IN  Complete("update_if_exists", [key |-> key, value |-> new_value],
                 it # map_end, FALSE,
                 (map_ \ it) \cup {[key |-> key, val |-> new_value]}, {})

update_if_exists(key, new_value) ==
    LET it == map_find(map_, key)
    IN  IF it = map_end
        THEN Complete("update_if_exists", [key |-> key, value |-> new_value],
                      FALSE, FALSE, map_, {})
        ELSE Complete("update_if_exists", [key |-> key, value |-> new_value],
                      TRUE, FALSE,
                      (map_ \ it) \cup {[key |-> key, val |-> new_value]}, {})

find_subscript(k) ==
    Complete("find", [key |-> k], map_subscript(map_, k).it, FALSE,
             map_subscript(map_, k).map, {})

find(k) == Complete("find", [key |-> k], map_find(map_, k), FALSE, map_, {})

contains(k) ==
    Complete("contains", [key |-> k], map_find(map_, k) # map_end, FALSE,
             map_, {})

at(k) ==
    Complete("at", [key |-> k], map_at(map_, k), map_at(map_, k).threw,
             map_, {})

size == Complete("size", <<>>, map_size(map_), FALSE, map_, {})

empty == Complete("empty", <<>>, map_empty(map_), FALSE, map_, {})

-----------------------------------------------------------------------------
(* delivery of a signal: SignalEmitter::emit *)

Pop == SubSeq(stack, 1, Len(stack) - 1)

\* the running callback returns to the emitter
CallbackReturns ==
    /\ stack # <<>>
    /\ Top.pc = "cb"
    /\ \E f \in Dispatch([Top EXCEPT !.idx = @ + 1], map_) :
         stack' = [stack EXCEPT ![Len(stack)] = f]
    /\ last' = NoCall
    /\ UNCHANGED <<map_, signal_emitter>>

CallbackThrows_rollback ==
    /\ stack # <<>>
    /\ Top.pc = "cb"
    /\ stack' = Pop
    /\ map_' = Top.pre
    /\ last' = Result(Top.op, Top.args, Top.ret, TRUE, Top.pre, Top.pre,
                      <<Top.ev>>, Len(stack) - 1, Top.dirty)
    /\ UNCHANGED signal_emitter

\* nothing between the callback and the caller of the store catches
CallbackThrows ==
    /\ stack # <<>>
    /\ Top.pc = "cb"
    /\ stack' = Pop
    /\ last' = Result(Top.op, Top.args, Top.ret, TRUE, Top.pre, map_,
                      <<Top.ev>>, Len(stack) - 1, Top.dirty)
    /\ UNCHANGED <<map_, signal_emitter>>

\* every callback of the pass has run: emit returns, then the store call
Return ==
    /\ stack # <<>>
    /\ Top.pc = "done"
    /\ stack' = Pop
    /\ last' = Result(Top.op, Top.args, Top.ret, FALSE, Top.pre, map_,
                      <<Top.ev>>, Len(stack) - 1, Top.dirty)
    /\ UNCHANGED <<map_, signal_emitter>>

\* the store has no observer that keeps a copy of it
NoMirror(A) == A /\ UNCHANGED mirror

Next ==
    \/ NoMirror(\E kind \in Kinds : connect(kind))
    \/ NoMirror(\E id \in SubIds : disconnect(id))
    \/ NoMirror(\E k \in Key, v \in Value : emplace(k, v))
    \/ NoMirror(\E k \in Key : erase(k))
    \/ NoMirror(\E k \in Key, v \in Value : insert_or_assign(k, v))
    \/ NoMirror(\E k \in Key, v \in Value : try_emplace(k, v))
    \/ NoMirror(\E k \in Key : subscript(k))
    \/ NoMirror(\E n \in Node : erase_pos({n}))
    \/ NoMirror(clear)
    \/ NoMirror(\E k \in Key, v \in Value : update_if_exists(k, v))
    \/ NoMirror(\E k \in Key : find(k))
    \/ NoMirror(\E k \in Key : contains(k))
    \/ NoMirror(\E k \in Key : at(k))
    \/ NoMirror(size)
    \/ NoMirror(empty)
    \/ NoMirror(CallbackReturns)
    \/ NoMirror(CallbackThrows)
    \/ NoMirror(Return)

Spec == Init /\ [][Next]_vars

-----------------------------------------------------------------------------
(* an observer that mirrors the store from the signals alone *)

\* what the observer's callbacks do with a signal
Observe(m, ev) ==
    IF ev.kind = "Inserted"
    THEN (m \ map_find(m, ev.key)) \cup {[key |-> ev.key, val |-> ev.value]}
    ELSE m \ map_find(m, ev.key)

\* the signals handed to a callback in this step, as the callback reads them
Handed ==
    IF stack' = <<>> THEN {}
    ELSE IF Len(stack') > Len(stack)
         THEN {stack'[Len(stack')].delivered[i].ev :
                  i \in 1..Len(stack'[Len(stack')].delivered)}
         ELSE IF Len(stack') = Len(stack)
                 /\ Len(stack'[Len(stack')].delivered) > Len(Top.delivered)
              THEN {stack'[Len(stack')].delivered[
                        Len(stack'[Len(stack')].delivered)].ev}
              ELSE {}

Mirrored(A) ==
    /\ A
    /\ mirror' = IF Handed = {} THEN mirror
                 ELSE Observe(mirror, CHOOSE ev \in Handed : TRUE)

\* the observer has subscribed one callback to each signal of the new store
InitMirror ==
    /\ map_ = {}
    /\ signal_emitter = <<[id |-> 1, kind |-> "Inserted"],
                          [id |-> 2, kind |-> "Erased"]>>
    /\ stack = <<>>
    /\ last = NoCall
    /\ mirror = {}

\* the owner calls emplace and erase(key) only; the callbacks read the store
\* and return
NextMirror ==
    \/ Mirrored(stack = <<>> /\ \E k \in Key, v \in Value : emplace(k, v))
    \/ Mirrored(stack = <<>> /\ \E k \in Key : erase(k))
    \/ Mirrored(\E k \in Key : find(k))
    \/ Mirrored(\E k \in Key : contains(k))
    \/ Mirrored(size)
    \/ Mirrored(CallbackReturns)
    \/ Mirrored(Return)

SpecMirror == InitMirror /\ [][NextMirror]_vars

-----------------------------------------------------------------------------
(* properties *)

Keys(m) == {n.key : n \in m}

Called(op) == last.op = op

\* C1: in every state reached by any sequence of store calls from the empty
\* store, size() is the number of distinct keys present and no key is held by
\* two nodes; a size() call returns that number.
C1_SizeIsNumberOfKeys ==
    /\ map_size(map_) = Cardinality(Keys(map_))
    /\ \A k \in Key : Cardinality(map_find(map_, k)) <= 1
    /\ Called("size") => last.ret = Cardinality(Keys(last.post))

\* size() returned 2 after both keys were inserted
C1_Witness == Called("size") /\ last.ret = 2 /\ Keys(map_) = {1, 2}

\* C2: emplace(k, v) with k absent emits exactly the one signal Inserted{k, v},
\* returns the node of k with inserted = true, and k maps to v when the call
\* ends (no callback having changed the store during the delivery).
C2_EmplaceAbsent ==
    Called("emplace") /\ map_find(last.pre, last.args.key) = map_end =>
        /\ last.ret.second = TRUE
        /\ last.ret.it = {[key |-> last.args.key, val |-> last.args.value]}
        /\ last.emitted = <<Inserted(last.args.key, last.args.value)>>
        /\ ~last.dirty =>
             /\ map_at(last.post, last.args.key)
                    = [threw |-> FALSE, value |-> last.args.value]
             /\ last.post = last.pre \cup
                    {[key |-> last.args.key, val |-> last.args.value]}

\* emplace of a new key into a non-empty store has returned
C2_Witness ==
    /\ Called("emplace")
    /\ ~last.threw
    /\ last.pre # {}
    /\ map_find(last.pre, last.args.key) = map_end
    /\ map_find(map_, last.args.key) # map_end

\* C3: emplace(k, v) with k present returns inserted = false with the node
\* already there, emits nothing and leaves the store as it was.
C3_EmplacePresent ==
    Called("emplace") /\ map_find(last.pre, last.args.key) # map_end =>
        /\ ~last.threw
        /\ last.ret.second = FALSE
        /\ last.ret.it = map_find(last.pre, last.args.key)
        /\ last.emitted = <<>>
        /\ last.post = last.pre
        /\ map_size(last.post) = map_size(last.pre)

\* emplace was called with a value other than the one the key holds
C3_Witness ==
    /\ Called("emplace")
    /\ \E n \in last.pre : n.key = last.args.key /\ n.val # last.args.value
    /\ last.ret.second = FALSE

\* C4: erase(k) with k present (holding v0) returns 1, emits exactly the one
\* signal Erased{k, v0} and removes the node of k and no other (no callback
\* having changed the store during the delivery).
C4_ErasePresent ==
    Called("erase") /\ map_find(last.pre, last.args.key) # map_end =>
        /\ last.ret = 1
        /\ \E n \in map_find(last.pre, last.args.key) :
             last.emitted = <<Erased(last.args.key, n.val)>>
        /\ ~last.dirty =>
             /\ map_find(last.post, last.args.key) = map_end
             /\ last.post = last.pre \ map_find(last.pre, last.args.key)

\* a key holding a value other than Value{} was erased from a store of two
C4_Witness ==
    /\ Called("erase")
    /\ ~last.threw
    /\ map_size(last.pre) = 2
    /\ \E n \in last.pre : n.key = last.args.key /\ n.val # DefaultValue
    /\ map_size(map_) = 1

\* C5: erase(k) with k absent returns 0, emits nothing and leaves the store
\* as it was.
C5_EraseAbsent ==
    Called("erase") /\ map_find(last.pre, last.args.key) = map_end =>
        /\ ~last.threw
        /\ last.ret = 0
        /\ last.emitted = <<>>
        /\ last.post = last.pre
        /\ map_size(last.post) = map_size(last.pre)

\* erase of an absent key was called on a non-empty store
C5_Witness ==
    /\ Called("erase")
    /\ last.pre # {}
    /\ map_find(last.pre, last.args.key) = map_end
    /\ last.ret = 0

\* C6: clear() emits exactly one Cleared signal and leaves the store empty,
\* on a non-empty store and again on the empty one.
C6_ClearEmitsCleared ==
    Called("clear") =>
        /\ map_size(last.post) = 0
        /\ Len(last.emitted) = 1
        /\ last.emitted[1].kind = "Cleared"

\* C7: a call that changed the contents of the store has emitted a signal by
\* the time it is over.
C7_EveryChangeEmits ==
    last.op # "none" /\ last.post # last.pre => last.emitted # <<>>

Reads == {"find", "contains", "at", "size", "empty"}

\* the running callback has just read the store, and no callback has changed
\* the store since the call that emitted the signal being delivered
ReadInDelivery ==
    /\ stack # <<>>
    /\ Top.pc = "cb"
    /\ ~Top.dirty
    /\ last.op \in Reads
    /\ last.depth = Len(stack)

\* C8: a callback that reads the store while a signal is delivered sees the
\* store as the emitting call changed it: under Inserted{k, v} contains(k) is
\* true, find(k) and at(k) give v and size() is one more than before the call;
\* under Erased{k, old} contains(k) is false, find(k) is end() and size() is
\* one less than before the call.
C8_CallbackSeesPostState ==
    ReadInDelivery =>
        /\ Top.ev.kind = "Inserted" =>
             /\ Called("contains") /\ last.args.key = Top.ev.key =>
                  last.ret = TRUE
             /\ Called("find") /\ last.args.key = Top.ev.key =>
                  last.ret = {[key |-> Top.ev.key, val |-> Top.ev.value]}
             /\ Called("at") /\ last.args.key = Top.ev.key =>
                  last.ret = [threw |-> FALSE, value |-> Top.ev.value]
             /\ Called("size") => last.ret = map_size(Top.pre) + 1
             /\ Called("empty") => last.ret = FALSE
        /\ Top.ev.kind = "Erased" =>
             /\ Called("contains") /\ last.args.key = Top.ev.key =>
                  last.ret = FALSE
             /\ Called("find") /\ last.args.key = Top.ev.key =>
                  last.ret = map_end
             /\ Called("size") => last.ret = map_size(Top.pre) - 1

\* a callback handed Inserted{k, v} has looked k up
C8_Witness ==
    /\ ReadInDelivery
    /\ Top.ev.kind = "Inserted"
    /\ Called("find")
    /\ last.args.key = Top.ev.key
    /\ last.ret # map_end

\* C9: when a callback fails during the delivery of the signal of emplace (of
\* a new key) or erase (of a present key), the call ends in that failure and
\* the store keeps the change: the inserted node is there, the erased node is
\* not (no callback having changed the store during the delivery).
C9_FailureKeepsChange ==
    last.op \in {"emplace", "erase"} /\ last.threw =>
        /\ Len(stack) = last.depth
        /\ Len(last.emitted) = 1
        /\ map_ = last.post
        /\ ~last.dirty /\ Called("emplace") =>
             /\ map_find(last.pre, last.args.key) = map_end
             /\ map_ = last.pre \cup
                    {[key |-> last.args.key, val |-> last.args.value]}
        /\ ~last.dirty /\ Called("erase") =>
             /\ map_find(last.pre, last.args.key) # map_end
             /\ map_ = last.pre \ map_find(last.pre, last.args.key)

\* an emplace ended in a callback's failure and its node is in the store
C9_Witness ==
    /\ Called("emplace")
    /\ last.threw
    /\ stack = <<>>
    /\ map_find(map_, last.args.key) # map_end

Absent(k) == map_find(last.pre, k) = map_end

\* C10: at(k) throws (std::out_of_range) exactly when k is absent and
\* otherwise returns the value of k, emitting nothing and changing nothing;
\* find, contains, erase(key) and update_if_exists answer an absent key with
\* end(), false, 0 and false; a call that fails without having emitted is at.
C10_OnlyAtThrows ==
    /\ Called("at") =>
         /\ last.threw <=> Absent(last.args.key)
         /\ last.threw => last.ret.what = "out_of_range"
         /\ ~last.threw =>
              \E n \in map_find(last.pre, last.args.key) :
                  last.ret.value = n.val
         /\ last.emitted = <<>>
         /\ last.post = last.pre
    /\ Called("find") /\ Absent(last.args.key) =>
         ~last.threw /\ last.ret = map_end
    /\ Called("contains") /\ Absent(last.args.key) =>
         ~last.threw /\ last.ret = FALSE
    /\ Called("erase") /\ Absent(last.args.key) =>
         ~last.threw /\ last.ret = 0
    /\ Called("update_if_exists") /\ Absent(last.args.key) =>
         ~last.threw /\ last.ret = FALSE
    /\ last.op # "none" /\ last.threw /\ last.emitted = <<>> => Called("at")

\* at() of an absent key has thrown on a non-empty store
C10_Witness ==
    /\ Called("at")
    /\ last.threw
    /\ last.pre # {}

\* C11: insert_or_assign(k, v) emits exactly the one signal Inserted{k, v}
\* when k was absent and nothing when k was present, returns true exactly when
\* k was newly inserted, and k maps to v afterwards.
C11_UpsertEmitsInserted ==
    Called("insert_or_assign") =>
        /\ Absent(last.args.key) =>
             last.emitted = <<Inserted(last.args.key, last.args.value)>>
        /\ ~Absent(last.args.key) => last.emitted = <<>>
        /\ last.ret.second <=> Absent(last.args.key)
        /\ map_at(last.post, last.args.key)
               = [threw |-> FALSE, value |-> last.args.value]

\* what insert_or_assign(k, v) does to the store, whatever it returns: k maps
\* to v, every other node is as before, nothing is emitted
InsertOrAssignEffect ==
    /\ ~last.threw
    /\ last.post = (last.pre \ map_find(last.pre, last.args.key))
                       \cup {[key |-> last.args.key, val |-> last.args.value]}
    /\ map_at(last.post, last.args.key)
           = [threw |-> FALSE, value |-> last.args.value]
    /\ last.ret.it = {[key |-> last.args.key, val |-> last.args.value]}
    /\ last.emitted = <<>>

C14_ReadsChangeNothing ==
    last.op \in Reads =>
        /\ last.post = last.pre
        /\ map_ = last.pre
        /\ last.emitted = <<>>
        /\ last.depth = Len(stack)

\* a running callback has looked up a key that is absent
C14_Witness ==
    /\ stack # <<>>
    /\ Top.pc = "cb"
    /\ Called("find")
    /\ last.depth = Len(stack)
    /\ last.ret = map_end

Ids(seq) == [i \in 1..Len(seq) |-> seq[i].id]

\* C15: an emplace that inserts takes the callbacks subscribed to Inserted in
\* the order of their subscription, and returns only after each of them has
\* been called exactly once, in that order (two callbacks: the first
\* subscribed, then the second).
C15_Step ==
    /\ Len(stack') > Len(stack) =>
         stack'[Len(stack')].snap
             = Snapshot(signal_emitter, stack'[Len(stack')].ev.kind)
    /\ stack # <<>> =>
         /\ Len(Top.delivered)
                = (IF Top.pc = "cb" THEN Top.idx ELSE Len(Top.snap))
         /\ \A i, j \in 1..Len(Top.delivered) :
                i # j => Top.delivered[i].id # Top.delivered[j].id
    /\ last'.op = "emplace" /\ last' # last /\ last'.ret.second
                            /\ ~last'.threw =>
         /\ stack # <<>>
         /\ stack' = Pop
         /\ Top.pc = "done"
         /\ Top.ev.kind = "Inserted"
         /\ Ids(Top.delivered) = Ids(Top.snap)

C15_InOrderOnce == [][C15_Step]_vars

\* both callbacks subscribed to Inserted have been called and have returned,
\* and the emplace is about to return
C15_Witness ==
    /\ stack # <<>>
    /\ Top.pc = "done"
    /\ Top.op = "emplace"
    /\ Len(Top.snap) = 2
    /\ Ids(Top.delivered) = Ids(signal_emitter)

\* C16: when the running callback unsubscribes itself, the pass in progress
\* is untouched (the callback has run, the callbacks captured after it are
\* still called before the pass ends) and the callback is subscribed no more,
\* so that a later emission, which calls only the callbacks subscribed when it
\* starts, does not call it.
C16_Step ==
    /\ stack # <<>> /\ signal_emitter' # signal_emitter =>
         /\ stack' = stack
         /\ Top.delivered[Len(Top.delivered)].id = Top.snap[Top.idx].id
         /\ Top.snap[Top.idx].id \notin UsedIds'
    /\ Len(stack') < Len(stack) /\ ~last'.threw =>
         /\ Top.pc = "done"
         /\ Ids(Top.delivered) = Ids(Top.snap)
    /\ Len(stack') > Len(stack) =>
         \A i \in 1..Len(stack'[Len(stack')].delivered) :
             stack'[Len(stack')].delivered[i].id \in UsedIds

C16_SelfUnsubscribe == [][C16_Step]_vars

\* the first of two callbacks unsubscribed itself while it ran, and the second
\* was still called
C16_Witness ==
    /\ stack # <<>>
    /\ Top.pc = "done"
    /\ Len(Top.snap) = 2
    /\ Top.snap[1].id \notin UsedIds
    /\ Ids(Top.delivered) = Ids(Top.snap)

\* C17: whenever erase(key) or erase(iterator) has removed a node, exactly one
\* Erased signal carrying the removed key and the value it held has been
\* emitted.
C17_EveryEraseEmits ==
    last.op \in {"erase", "erase_pos"} =>
        \A n \in last.pre :
            (IF Called("erase") THEN n.key = last.args.key
                                ELSE n \in last.args.pos) =>
                last.emitted = <<Erased(n.key, n.val)>>

\* C18: when a callback of the pass of Inserted{k, v} has removed the node of
\* k from the store (erase, clear), every callback of the pass, the ones
\* called after the removal included, still reads key k and value v from the
\* signal it is handed.
C18_SignalStaysValid ==
    \A i \in 1..Len(stack) :
        stack[i].ev.kind = "Inserted" /\ stack[i].dangling =>
            \A j \in 1..Len(stack[i].delivered) :
                stack[i].delivered[j].ev = stack[i].ev

\* C19: with emplace and erase(key) the only modifiers called and callbacks
\* that do not change the store, the copy an observer keeps from the signals
\* alone (k -> v on Inserted{k, v}, k dropped on Erased{k, old}) equals the
\* store after every call, and no call emits more than one signal.
C19_MirrorIsStore ==
    /\ stack = <<>> => mirror = map_
    /\ last.op \in {"emplace", "erase"} => Len(last.emitted) <= 1

\* after insertions, a refused emplace and an erase, the copy holds one node
C19_Witness ==
    /\ stack = <<>>
    /\ Called("erase")
    /\ last.ret = 1
    /\ map_size(last.pre) = 2
    /\ mirror = map_
    /\ map_size(mirror) = 1

=============================================================================
